---- MODULE Spec2Model ----
(***************************************************************************)
(* minidoc/dir.go: the request router (dirHandler), the document and HTML  *)
(* page renderers, the directory lister and the template registry.         *)
(*                                                                         *)
(* Strings are sequences of tokens (a token is a short run of characters;  *)
(* ".", "/", "_", "?" are tokens of their own), so that filepath.Ext,      *)
(* strings.HasPrefix, filepath.Join and url.String are computed the way    *)
(* the code computes them.                                                 *)
(***************************************************************************)
EXTENDS Integers, Sequences, FiniteSets, TLC

VARIABLES
    phase,           \* "boot" | "idle" | "done": the server's position
    contentTemplate, \* dir.go:82  extension -> template object
    layoutTemplate,  \* dir.go:85  template object (or "nil")
    dirListTemplate, \* dir.go:78  template object (or "nil")
    heap,            \* template objects: id -> set of template definitions
    req,             \* the request as received: [Path, RawQuery]
    rURL,            \* *r.URL as the handler leaves it: [Host, Path, RawQuery]
    node,            \* what the request path denotes under *f_root
    resp,            \* [status, location, body]
    strategy,        \* the branch of dirHandler that produced the response
    fsAccess,        \* whether the handler touched the filesystem
    parseCalls,      \* the calls of parse(), in order
    htmlCalls,       \* the paths renderHTML was called with, in order
    dirRes,          \* what dirList returned and built
    pc,              \* concurrent requests: worker -> position
    wfile,           \* concurrent requests: worker -> the file it serves
    wtmpl,           \* concurrent requests: worker -> its local tmpl variable
    wout             \* concurrent requests: worker -> what Execute saw

seqVars  == <<req, rURL, node, resp, strategy, fsAccess, parseCalls, htmlCalls, dirRes>>
tmplVars == <<contentTemplate, layoutTemplate, dirListTemplate>>
concVars == <<pc, wfile, wtmpl, wout>>
vars     == <<phase, tmplVars, heap, seqVars, concVars>>

----------------------------------------------------------------------------
(* Bounds *)

\* the largest number of immediate children of a listed directory
MaxChildren == 2
\* the number of requests served concurrently
MaxRequests == 2

----------------------------------------------------------------------------
(* Strings *)

\* strings.HasPrefix
HasPrefix(s, p) == Len(s) >= Len(p) /\ SubSeq(s, 1, Len(p)) = p

\* the index of the first token t of s, 0 if none
RECURSIVE FirstIndex(_, _, _)
FirstIndex(s, t, i) ==
    IF i > Len(s) THEN 0
    ELSE IF s[i] = t THEN i
    ELSE FirstIndex(s, t, i + 1)

\* filepath.Ext: the suffix beginning at the final dot of the final element
\* of the path; empty if that element has no dot.
RECURSIVE ExtFrom(_, _)
ExtFrom(path, i) ==
    IF i = 0 \/ path[i] = "/" THEN <<>>
    ELSE IF path[i] = "." THEN SubSeq(path, i, Len(path))
    ELSE ExtFrom(path, i - 1)

Ext(path) == ExtFrom(path, Len(path))

\* the elements of a path: the runs of tokens between "/" tokens
RECURSIVE Elements(_)
Elements(path) ==
    IF path = <<>> THEN <<>>
    ELSE LET k == FirstIndex(path, "/", 1)
         IN  IF k = 0 THEN <<path>>
             ELSE <<SubSeq(path, 1, k - 1)>> \o Elements(SubSeq(path, k + 1, Len(path)))

RECURSIVE JoinElements(_)
JoinElements(es) ==
    IF es = <<>> THEN <<>>
    ELSE IF Len(es) = 1 THEN es[1]
    ELSE es[1] \o <<"/">> \o JoinElements(Tail(es))

\* filepath.Join for relative results: the elements of a and b, with the
\* empty and the "." elements dropped (filepath.Clean); "." if none is left.
\* (The paths of the model hold no ".." element.)
Join(a, b) ==
    LET es   == Elements(a) \o Elements(b)
        kept == SelectSeq(es, LAMBDA e : e /= <<>> /\ e /= <<".">>)
    IN  IF kept = <<>> THEN <<".">> ELSE JoinElements(kept)

\* filepath.ToSlash: the separator is "/" already
ToSlash(p) == p

----------------------------------------------------------------------------
(* Template objects *)

SlideExt   == <<".", "slide">>
ArticleExt == <<".", "article">>
HtmlExt    == <<".", "html">>

\* A template object is named by who created it: initTemplates (owner 0)
\* or the Clone made by a request (owner: the worker serving it).
Workers     == 1..MaxRequests
Shared(n)   == [name |-> n, owner |-> 0]
CloneId(w)  == [name |-> "clone", owner |-> w]
Nil         == Shared("nil")
SharedIds   == {Shared("slides"), Shared("article"), Shared("layout"), Shared("dir")}
TemplateIds == SharedIds \cup {CloneId(w) : w \in Workers}

\* one named definition of a template, and the file it was parsed from
Def(n, src) == [name |-> n, src |-> src]

\* the definitions each shared template holds once initTemplates is done
InitialDefs(id) ==
    CASE id = Shared("slides")  -> {Def("action.tmpl", "action.tmpl"), Def("slides.tmpl", "slides.tmpl")}
      [] id = Shared("article") -> {Def("action.tmpl", "action.tmpl"), Def("article.tmpl", "article.tmpl")}
      [] id = Shared("layout")  -> {Def("layout.tmpl", "layout.tmpl"), Def("title", "layout.tmpl")}
      [] id = Shared("dir")     -> {Def("dir.tmpl", "dir.tmpl"), Def("layout.tmpl", "layout.tmpl"),
                                    Def("title", "layout.tmpl")}

\* initTemplates, without its I/O failures (they abort the start of the server)
initTemplates ==
    /\ phase = "boot"
    /\ contentTemplate' = (SlideExt :> Shared("slides")) @@ (ArticleExt :> Shared("article"))
    /\ layoutTemplate' = Shared("layout")
    /\ dirListTemplate' = Shared("dir")
    /\ heap' = [id \in TemplateIds |-> IF id \in SharedIds THEN InitialDefs(id) ELSE {}]
    /\ phase' = "idle"
    /\ UNCHANGED <<seqVars, concVars>>

\* isDoc
isDoc(path) == Ext(path) \in DOMAIN contentTemplate

----------------------------------------------------------------------------
(* The filesystem under *f_root, as the handler sees it *)

\* What os.FileInfo and the later reads of one immediate child give:
\* Kids is what ioutil.ReadDir returns for it (ReadErr: the read fails),
\* TitleOK/BodyOK whether its title block and its body are well-formed
\* presentation source, HtmlOK whether it parses as a template.
File(n, t, b, h) ==
    [Name |-> n, IsDir |-> FALSE, Kids |-> <<>>, ReadErr |-> FALSE,
     TitleOK |-> t, BodyOK |-> b, HtmlOK |-> h]
Dir(n, kids, rerr) ==
    [Name |-> n, IsDir |-> TRUE, Kids |-> kids, ReadErr |-> rerr,
     TitleOK |-> FALSE, BodyOK |-> FALSE, HtmlOK |-> FALSE]
\* a grandchild: only its name is read (showDir), Sub is what lies below it
Kid(n, isdir, sub) == [Name |-> n, IsDir |-> isdir, Sub |-> sub]

\* the children a listed directory is drawn from
ChildPool ==
    << File(<<"a", ".", "slide">>, TRUE, TRUE, FALSE),
      File(<<"a", ".", "slide">>, TRUE, FALSE, FALSE),
      File(<<"b", ".", "article">>, FALSE, FALSE, FALSE),
      File(<<"z", ".", "pdf">>, FALSE, FALSE, FALSE),
      File(<<"index", ".", "html">>, FALSE, FALSE, TRUE),
      File(<<"index", ".", "html">>, FALSE, FALSE, FALSE),
      File(<<"n", ".", "txt">>, FALSE, FALSE, FALSE),
      File(<<"m", ".", "go">>, FALSE, FALSE, FALSE),
      Dir(<<"pkg">>, <<Kid(<<"m", ".", "go">>, FALSE, <<>>)>>, FALSE),
      Dir(<<".", "git">>, <<Kid(<<"c", ".", "go">>, FALSE, <<>>)>>, FALSE),
      Dir(<<"_", "old", ".", "html">>, <<Kid(<<"a", ".", "go">>, FALSE, <<>>)>>, FALSE),
      Dir(<<"empty", ".", "slide">>, <<>>, FALSE),
      Dir(<<"present">>, <<Kid(<<"a", ".", "slide">>, FALSE, <<>>)>>, FALSE),
      Dir(<<"docs">>, <<Kid(<<"n", ".", "txt">>, FALSE, <<>>),
                        Kid(<<"a", ".", "slide">>, FALSE, <<>>)>>, FALSE),
      Dir(<<"docs">>, <<Kid(<<"n", ".", "txt">>, FALSE, <<>>),
                        Kid(<<"deep">>, TRUE, <<<<"a", ".", "slide">>>>)>>, FALSE),
      Dir(<<"docs">>, <<Kid(<<"a", ".", "slide">>, FALSE, <<>>)>>, TRUE),
      Dir(<<"talks", ".", "slide">>, <<Kid(<<"z", ".", "pdf">>, FALSE, <<>>)>>, FALSE) >>

\* the enumerations f.Readdir(0) can return, as positions in ChildPool:
\* any order, names distinct
Listings(n) == UNION { [1..k -> 1..Len(ChildPool)] : k \in 0..n }

DistinctNames(l) ==
    \A i, j \in 1..Len(l) : i /= j => ChildPool[l[i]].Name /= ChildPool[l[j]].Name

\* what a request path can denote: nothing, a regular file, a directory.
\* ioErr names the call of dirList on it that fails ("none": no call fails).
\* In the sets below a directory's entries are positions in ChildPool;
\* OnDisk puts the children in their place.
Absent == [kind |-> "absent", TitleOK |-> FALSE, BodyOK |-> FALSE, HtmlOK |-> FALSE,
           entries |-> <<>>, ioErr |-> "open"]
RegularFile(t, b, h) ==
    [kind |-> "file", TitleOK |-> t, BodyOK |-> b, HtmlOK |-> h,
     entries |-> <<>>, ioErr |-> "none"]
Directory(l, e) ==
    [kind |-> "dir", TitleOK |-> FALSE, BodyOK |-> FALSE, HtmlOK |-> FALSE,
     entries |-> l, ioErr |-> e]

FileNodes == { RegularFile(TRUE, TRUE, TRUE), RegularFile(TRUE, FALSE, FALSE),
               RegularFile(FALSE, FALSE, TRUE), RegularFile(FALSE, FALSE, FALSE) }
DirNodes  == { Directory(l, "none") : l \in {x \in Listings(MaxChildren) : DistinctNames(x)} }
             \cup { Directory(l, e) : l \in {x \in Listings(1) : DistinctNames(x)},
                                      e \in {"open", "stat", "readdir"} }
Nodes     == {Absent} \cup FileNodes \cup DirNodes

OnDisk(n) == [n EXCEPT !.entries = [i \in 1..Len(n.entries) |-> ChildPool[n.entries[i]]]]

----------------------------------------------------------------------------
(* The document parser and the two renderers *)

\* present.ParseMode: the full parse is the literal 0 of dir.go:133
FullParse  == 0
TitlesOnly == 1

NoErr == "nil"

\* present.Parse on an open file: a directory cannot be read as a document;
\* the title-only mode stops after the title block.
PresentParse(fi, m) ==
    IF fi.IsDir THEN [err |-> "read", Title |-> <<>>]
    ELSE IF ~fi.TitleOK THEN [err |-> "syntax", Title |-> <<>>]
    ELSE IF m /= TitlesOnly /\ ~fi.BodyOK THEN [err |-> "syntax", Title |-> <<>>]
    ELSE [err |-> NoErr, Title |-> <<"Title", "of">> \o fi.Name]

\* the mode parse hands to present.Parse
parseMode(mode) == FullParse

\* parse: os.Open, then present.Parse
parse(name, mode, exists, fi) ==
    IF ~exists THEN [err |-> "open", Title |-> <<>>]
    ELSE PresentParse(fi, parseMode(mode))

\* the record of one call of parse
ParseCall(by, name, mode) ==
    [caller |-> by, name |-> name, passed |-> mode, received |-> parseMode(mode)]

\* one piece of output written to the response
Chunk(kind, ref) == [kind |-> kind, ref |-> ref]

\* doc.Render(w, tmpl) of a parsed doc, or the parse error returned
Rendered(docFile, doc) ==
    [err   |-> doc.err,
     out   |-> IF doc.err = NoErr
               THEN <<Chunk("doc", docFile), Chunk("tmpl", <<contentTemplate[Ext(docFile)].name>>)>>
               ELSE <<>>,
     calls |-> <<ParseCall("renderDoc", docFile, FullParse)>>]

\* renderDoc: parse in full, then doc.Render with the extension's template
renderDoc(docFile, exists, fi) ==
    Rendered(docFile, parse(docFile, FullParse, exists, fi))

\* renderHTML: Clone the layout, ParseFiles the page into the clone, Execute
renderHTML(name, exists, htmlOK) ==
    IF exists /\ htmlOK
    THEN [err |-> NoErr, out |-> <<Chunk("html", name)>>]
    ELSE [err |-> "parsefiles", out |-> <<>>]

----------------------------------------------------------------------------
(* The directory lister *)

\* a showFile whose default case shows the file
showFileByDefault(n) == TRUE

\* showFile
showFile(n) ==
    CASE Ext(n) = <<".", "pdf">> -> TRUE
      [] Ext(n) = HtmlExt        -> TRUE
      [] Ext(n) = <<".", "go">>  -> TRUE
      [] OTHER                   -> isDoc(n)

RECURSIVE AnyShown(_)
AnyShown(files) ==
    IF files = <<>> THEN FALSE
    ELSE IF showFile(Head(files).Name) THEN TRUE
    ELSE AnyShown(Tail(files))

\* a showDir that checks the name only, not the directory's content
showDirByNameOnly(e, fi) ==
    ~((Len(e.Name) > 0 /\ (e.Name[1] = "." \/ e.Name[1] = "_")) \/ e.Name = <<"present">>)

\* showDir; fi is what the disk holds at e.Path
showDir(e, fi) ==
    LET n == e.Name
    IN  IF (Len(n) > 0 /\ (n[1] = "." \/ n[1] = "_")) \/ n = <<"present">> THEN FALSE
        ELSE IF fi.ReadErr THEN FALSE
        ELSE AnyShown(fi.Kids)

\* the tokens in byte order; no two names of the model differ first at
\* tokens one of which is a prefix of the other, so comparing ranks token by
\* token is comparing the strings
TokenOrder ==
    <<".", "/", "?", "_", "a", "article", "b", "c", "deep", "docs", "empty", "git",
      "go", "html", "index", "m", "n", "old", "pdf", "pkg", "present", "slide",
      "talks", "txt", "z">>
Rank(t) == FirstIndex(TokenOrder, t, 1)

\* dirEntrySlice.Less: s[i].Name < s[j].Name
RECURSIVE NameLess(_, _)
NameLess(a, b) ==
    IF b = <<>> THEN FALSE
    ELSE IF a = <<>> THEN TRUE
    ELSE IF Head(a) = Head(b) THEN NameLess(Tail(a), Tail(b))
    ELSE Rank(Head(a)) < Rank(Head(b))

Less(x, y) == NameLess(x.Name, y.Name)

RECURSIVE Insert(_, _)
Insert(sorted, x) ==
    IF sorted = <<>> THEN <<x>>
    ELSE IF Less(x, Head(sorted)) THEN <<x>> \o sorted
    ELSE <<Head(sorted)>> \o Insert(Tail(sorted), x)

\* sort.Sort on a dirEntrySlice (the names of one directory are distinct)
RECURSIVE Sort(_)
Sort(es) ==
    IF es = <<>> THEN <<>>
    ELSE Insert(Sort(SubSeq(es, 1, Len(es) - 1)), es[Len(es)])

EmptyData(name) ==
    [Path |-> name, Dirs |-> <<>>, Slides |-> <<>>, Articles |-> <<>>, Other |-> <<>>]

\* the dirEntry the loop body builds for a child
Entry(name, fi) ==
    [Name |-> fi.Name, Path |-> ToSlash(Join(name, fi.Name)), Title |-> <<>>]

\* a document branch that leaves out the document whose parse failed
PlaceDocSkipsFailed(e0, p, acc) ==
    IF p.err /= NoErr
    THEN [acc EXCEPT !.calls = Append(@, ParseCall("dirList", e0.Path, TitlesOnly)),
                     !.logged = Append(@, e0.Name)]
    ELSE [acc EXCEPT !.calls = Append(@, ParseCall("dirList", e0.Path, TitlesOnly)),
                     !.d = IF Ext(e0.Path) = ArticleExt
                           THEN [acc.d EXCEPT !.Articles = Append(@, [e0 EXCEPT !.Title = p.Title])]
                           ELSE [acc.d EXCEPT !.Slides = Append(@, [e0 EXCEPT !.Title = p.Title])]]

\* the document branch of the loop body: p is what parse returned for e0
PlaceDoc(e0, p, acc) ==
    [d      |-> CASE Ext(e0.Path) = ArticleExt ->
                       [acc.d EXCEPT !.Articles = Append(@, [e0 EXCEPT !.Title = p.Title])]
                  [] Ext(e0.Path) = SlideExt ->
                       [acc.d EXCEPT !.Slides = Append(@, [e0 EXCEPT !.Title = p.Title])]
                  [] OTHER -> acc.d,
     calls  |-> Append(acc.calls, ParseCall("dirList", e0.Path, TitlesOnly)),
     logged |-> IF p.err /= NoErr THEN Append(acc.logged, e0.Name) ELSE acc.logged]

\* the loop body of dirList for the child e0 (not index.html, not the
\* skipped pkg): acc holds d, the calls of parse and the errors logged so far.
\* A failed parse returns a nil doc: the Title stays empty.
ClassifyEntry(e0, fi, acc) ==
    IF fi.IsDir /\ showDir(e0, fi)
    THEN [acc EXCEPT !.d.Dirs = Append(@, e0)]
    ELSE IF isDoc(e0.Name)
    THEN PlaceDoc(e0, parse(e0.Path, TitlesOnly, TRUE, fi), acc)
    ELSE IF showFile(e0.Name)
    THEN [acc EXCEPT !.d.Other = Append(@, e0)]
    ELSE acc

Classify(name, fi, acc) ==
    IF name = <<".">> /\ fi.Name = <<"pkg">> THEN acc
    ELSE ClassifyEntry(Entry(name, fi), fi, acc)

\* the end of dirList: the root path is shown empty, the categories sorted,
\* the listing template executed
Listed(d, acc, count) ==
    [isDir |-> TRUE, err |-> NoErr,
     out |-> <<Chunk("listing", IF d.Path = <<".">> THEN <<>> ELSE d.Path)>>,
     d |-> [Path |-> IF d.Path = <<".">> THEN <<>> ELSE d.Path,
            Dirs |-> Sort(d.Dirs), Slides |-> Sort(d.Slides),
            Articles |-> Sort(d.Articles), Other |-> Sort(d.Other)],
     executed |-> TRUE, calls |-> acc.calls, logged |-> acc.logged,
     html |-> <<>>, seen |-> count]

\* an index.html branch that leaves the loop without returning: the listing
\* is rendered after the page
BailedThenListed(r, path, acc, count) ==
    [Listed(acc.d, acc, count) EXCEPT !.err = r.err, !.out = r.out \o @, !.html = <<path>>]

\* the index.html branch: renderHTML's result r is dirList's result
Bailed(r, path, acc, count) ==
    [isDir |-> TRUE, err |-> r.err, out |-> r.out, d |-> acc.d,
     executed |-> FALSE, calls |-> acc.calls, logged |-> acc.logged,
     html |-> <<path>>, seen |-> count]

\* the loop of dirList over fis from position i on
RECURSIVE DirLoop(_, _, _, _)
DirLoop(name, fis, i, acc) ==
    IF i > Len(fis) THEN Listed(acc.d, acc, i - 1)
    ELSE IF ~(name = <<".">> /\ fis[i].Name = <<"pkg">>) /\ fis[i].Name = <<"index", ".", "html">>
    THEN Bailed(renderHTML(Entry(name, fis[i]).Path, TRUE, ~fis[i].IsDir /\ fis[i].HtmlOK),
                Entry(name, fis[i]).Path, acc, i)
    ELSE DirLoop(name, fis, i + 1, Classify(name, fis[i], acc))

NoList(isdir, err, name) ==
    [isDir |-> isdir, err |-> err, out |-> <<>>, d |-> EmptyData(name),
     executed |-> FALSE, calls |-> <<>>, logged |-> <<>>, html |-> <<>>, seen |-> 0]

\* dirList
dirList(name, n) ==
    IF n.kind = "absent" \/ n.ioErr = "open" THEN NoList(FALSE, "open", name)
    ELSE IF n.ioErr = "stat" THEN NoList(FALSE, "stat", name)
    ELSE IF n.kind /= "dir" THEN NoList(FALSE, NoErr, name)
    ELSE IF n.ioErr = "readdir" THEN NoList(FALSE, "readdir", name)
    ELSE DirLoop(name, n.entries, 1,
                 [d |-> EmptyData(name), calls |-> <<>>, logged |-> <<>>])

----------------------------------------------------------------------------
(* The request router *)

LegacyPrefix == <<"/", "minimega", ".", "git">>
FaviconPath  == <<"/", "favicon", ".", "ico">>
GithubHost   == <<"github.com">>
OrgPrefix    == <<"/", "sandia-minimega">>

\* URL.EscapedPath of a path with no valid RawPath: "?" is escaped
RECURSIVE EscapedPath(_)
EscapedPath(path) ==
    IF path = <<>> THEN <<>>
    ELSE <<IF Head(path) = "?" THEN "%3F" ELSE Head(path)>> \o EscapedPath(Tail(path))

\* URL.String of a URL with no scheme, user or fragment
URLString(u) ==
    LET path == EscapedPath(u.Path)
    IN  (IF u.Host /= <<>> THEN <<"//">> \o u.Host ELSE <<>>)
        \o (IF path /= <<>> /\ path[1] /= "/" /\ u.Host /= <<>> THEN <<"/">> ELSE <<>>)
        \o path
        \o (IF u.RawQuery /= <<>> THEN <<"?">> \o u.RawQuery ELSE <<>>)

\* a redirect that rebuilds the URL and forgets the query string
RedirectURLDropsQuery(u) ==
    [Host |-> GithubHost, Path |-> OrgPrefix \o u.Path, RawQuery |-> <<>>]

\* the URL the redirect branch builds from r.URL
RedirectURL(u) ==
    [Host |-> GithubHost, Path |-> OrgPrefix \o u.Path, RawQuery |-> u.RawQuery]

\* http.FileServer(http.Dir(*f_root)).ServeHTTP for a path that is a regular
\* file or is absent
FileServer(path, n) ==
    IF n.kind = "file" /\ n.ioErr = "none"
    THEN [status |-> 200, location |-> <<>>, body |-> <<Chunk("file", path)>>]
    ELSE [status |-> 404, location |-> <<>>, body |-> <<Chunk("error", <<"404 page not found">>)>>]

\* http.Error(w, err.Error(), 500) after what was written before it
ServerError(out, err) ==
    [status |-> 500, location |-> <<>>, body |-> out \o <<Chunk("error", <<err>>)>>]

Written(out) == [status |-> 200, location |-> <<>>, body |-> out]

NoDir == [called |-> FALSE]

\* the last element of a path
Base(path) == LET es == Elements(path) IN IF es = <<>> THEN <<>> ELSE es[Len(es)]

\* the requested path as parse sees it once opened
AsFile(name, n) ==
    [Name |-> Base(name), IsDir |-> n.kind = "dir", Kids |-> <<>>, ReadErr |-> FALSE,
     TitleOK |-> n.TitleOK, BodyOK |-> n.BodyOK, HtmlOK |-> n.HtmlOK]

Opens(n) == n.kind /= "absent" /\ n.ioErr /= "open"

\* what the handler leaves behind when it has touched nothing yet
Untouched(r) ==
    [url |-> [Host |-> <<>>, Path |-> r.Path, RawQuery |-> r.RawQuery],
     strategy |-> "none", fs |-> TRUE, calls |-> <<>>, html |-> <<>>,
     dir |-> NoDir, resp |-> Written(<<>>)]

\* the write of a renderer's result rr, as dirHandler does after each
Respond(rr) ==
    IF rr.err /= NoErr THEN ServerError(rr.out, rr.err) ELSE Written(rr.out)

\* what dirHandler keeps of dirList's result
DirResult(dl) ==
    [called |-> TRUE, isDir |-> dl.isDir, err |-> dl.err, d |-> dl.d,
     executed |-> dl.executed, out |-> dl.out, logged |-> dl.logged, seen |-> dl.seen]

\* dir.go:27-34
redirect(r) ==
    [Untouched(r) EXCEPT
        !.url = RedirectURL(@), !.strategy = "redirect", !.fs = FALSE,
        !.resp = [status |-> 301, location |-> URLString(RedirectURL(Untouched(r).url)),
                  body |-> <<>>]]

\* dir.go:36-39
favicon(r) ==
    [Untouched(r) EXCEPT
        !.strategy = "favicon", !.fs = FALSE,
        !.resp = [status |-> 404, location |-> <<>>,
                  body |-> <<Chunk("error", <<"not found">>)>>]]

\* dir.go:43-50, rd is renderDoc's result
docBranch(r, rd) ==
    [Untouched(r) EXCEPT !.strategy = "renderDoc", !.calls = rd.calls, !.resp = Respond(rd)]

\* dir.go:60-66, rh is renderHTML's result
htmlBranch(r, name, dir, rh) ==
    [Untouched(r) EXCEPT !.strategy = "renderHTML", !.dir = dir, !.html = <<name>>,
                         !.resp = Respond(rh)]

\* dir.go:68
staticBranch(r, n, dir) ==
    [Untouched(r) EXCEPT !.strategy = "fileServer", !.dir = dir,
                         !.resp = FileServer(r.Path, n)]

\* dir.go:51-68, dl is dirList's result
dirBranch(r, n, name, dl) ==
    IF dl.err /= NoErr \/ dl.isDir
    THEN [Untouched(r) EXCEPT !.strategy = "dirList", !.calls = dl.calls, !.html = dl.html,
                              !.dir = DirResult(dl), !.resp = Respond(dl)]
    ELSE IF Ext(name) = HtmlExt
    THEN htmlBranch(r, name, DirResult(dl),
                    renderHTML(name, Opens(n), n.kind = "file" /\ n.HtmlOK))
    ELSE staticBranch(r, n, DirResult(dl))

\* dir.go:40-68, name is filepath.Join(base, r.URL.Path)
resolved(r, n, name) ==
    IF isDoc(name) THEN docBranch(r, renderDoc(name, Opens(n), AsFile(name, n)))
    ELSE dirBranch(r, n, name, dirList(name, n))

\* dirHandler: everything the handler does for request r when its path
\* denotes n, as the values of the variables it leaves behind
dirHandler(r, n) ==
    IF HasPrefix(r.Path, LegacyPrefix) THEN redirect(r)
    ELSE IF r.Path = FaviconPath THEN favicon(r)
    ELSE resolved(r, n, Join(<<".">>, r.Path))

----------------------------------------------------------------------------
(* Requests *)

Paths ==
    { <<"/", "sub">>,
      <<"/", "old", ".", "html">>,
      <<"/", "a", ".", "slide">>,
      <<"/", "sub", "/", "b", ".", "article">>,
      <<"/", "n", ".", "txt">>,
      <<"/", "minimega">>,
      FaviconPath }

LegacyPaths ==
    { LegacyPrefix,
      LegacyPrefix \o <<"/", "a", "?", "b", ".", "slide">>,
      LegacyPrefix \o <<"x", "/", "info">>,
      LegacyPrefix \o <<"/", "favicon", ".", "ico">> }

Queries == { <<>>, <<"a=1">>, <<"a=1", "&", "b=2">>, <<"u=", "/", "x", "?", "y">> }

\* the requests served: every path with no query string, the paths the
\* router answers without the filesystem with every query string
Requests ==
    { [Path |-> p, RawQuery |-> <<>>] : p \in Paths \cup {<<"/">>} }
    \cup
    { [Path |-> p, RawQuery |-> q] : p \in LegacyPaths \cup {FaviconPath}, q \in Queries }

\* what a request's path can denote: the root is a directory, every other
\* path anything; for the paths answered without the filesystem three
\* things stand for all
Denotes(r, n) ==
    /\ r.Path = <<"/">> => n.kind = "dir"
    /\ (HasPrefix(r.Path, LegacyPrefix) \/ r.Path = FaviconPath) =>
          n \in {Absent, RegularFile(TRUE, TRUE, TRUE), Directory(<<>>, "none")}

Init ==
    /\ phase = "boot"
    /\ contentTemplate = <<>>
    /\ layoutTemplate = Nil
    /\ dirListTemplate = Nil
    /\ heap = [id \in TemplateIds |-> {}]
    /\ req = [Path |-> <<>>, RawQuery |-> <<>>]
    /\ rURL = [Host |-> <<>>, Path |-> <<>>, RawQuery |-> <<>>]
    /\ node = Absent
    /\ resp = [status |-> 0, location |-> <<>>, body |-> <<>>]
    /\ strategy = "none"
    /\ fsAccess = FALSE
    /\ parseCalls = <<>>
    /\ htmlCalls = <<>>
    /\ dirRes = NoDir
    /\ pc = [w \in Workers |-> "idle"]
    /\ wfile = [w \in Workers |-> ""]
    /\ wtmpl = [w \in Workers |-> Nil]
    /\ wout = [w \in Workers |-> {}]

\* the state a served request leaves
Served(r, n, h) ==
    /\ req' = r
    /\ node' = n
    /\ rURL' = h.url
    /\ resp' = h.resp
    /\ strategy' = h.strategy
    /\ fsAccess' = h.fs
    /\ parseCalls' = h.calls
    /\ htmlCalls' = h.html
    /\ dirRes' = h.dir

\* one request is served from its arrival to its response
Serve ==
    /\ phase = "idle"
    /\ \E r \in Requests, n \in Nodes :
          /\ Denotes(r, n)
          /\ Served(r, OnDisk(n), dirHandler(r, OnDisk(n)))
    /\ phase' = "done"
    /\ UNCHANGED <<tmplVars, heap, concVars>>

\* the handler has returned; the server waits for the next request
Idle ==
    /\ phase = "done"
    /\ phase' = "idle"
    /\ req' = [Path |-> <<>>, RawQuery |-> <<>>]
    /\ rURL' = [Host |-> <<>>, Path |-> <<>>, RawQuery |-> <<>>]
    /\ node' = Absent
    /\ resp' = [status |-> 0, location |-> <<>>, body |-> <<>>]
    /\ strategy' = "none"
    /\ fsAccess' = FALSE
    /\ parseCalls' = <<>>
    /\ htmlCalls' = <<>>
    /\ dirRes' = NoDir
    /\ UNCHANGED <<tmplVars, heap, concVars>>

Next ==
    \/ initTemplates
    \/ Serve
    \/ Idle

Spec == Init /\ [][Next]_vars

----------------------------------------------------------------------------
(* Requests served concurrently: the steps that touch the templates *)

\* the HTML pages served, and the definitions each one's source holds
Pages == {"p.html", "q.html", "bad.html"}
PageDefs(f) ==
    CASE f = "p.html" -> {Def("content", "p.html"), Def("title", "p.html")}
      [] f = "q.html" -> {Def("content", "q.html")}
      [] OTHER        -> {}
PageOK(f) == f /= "bad.html"

Docs == {"a.slide", "b.article"}
DocExt(f) == IF f = "a.slide" THEN SlideExt ELSE ArticleExt

\* no Clone: the request works on the template it was given
CloneShares(t, w) == t

\* Template.Clone: the new template object a request gets
Clone(t, w) == CloneId(w)

\* Template.ParseFiles on defs: the file's definitions replace those of the
\* same name
ParseFiles(defs, f) ==
    {d \in defs : \A n \in PageDefs(f) : n.name /= d.name} \cup PageDefs(f)

\* a request arrives at a worker and is routed to a renderer
Accept(w) ==
    /\ phase = "idle"
    /\ pc[w] = "idle"
    /\ \E f \in Pages \cup Docs \cup {"dir"} :
          /\ wfile' = [wfile EXCEPT ![w] = f]
          /\ pc' = [pc EXCEPT ![w] = IF f \in Pages THEN "clone"
                                     ELSE IF f \in Docs THEN "doc" ELSE "list"]
    /\ UNCHANGED <<phase, tmplVars, heap, seqVars, wtmpl, wout>>

\* renderHTML: tmpl, err := layoutTemplate.Clone()
htmlClone(w) ==
    /\ pc[w] = "clone"
    /\ wtmpl' = [wtmpl EXCEPT ![w] = Clone(layoutTemplate, w)]
    /\ heap' = [heap EXCEPT ![Clone(layoutTemplate, w)] = heap[layoutTemplate]]
    /\ pc' = [pc EXCEPT ![w] = "parse"]
    /\ UNCHANGED <<phase, tmplVars, seqVars, wfile, wout>>

\* renderHTML: tmpl, err = tmpl.ParseFiles(f)
htmlParse(w) ==
    /\ pc[w] = "parse"
    /\ IF PageOK(wfile[w])
       THEN /\ heap' = [heap EXCEPT ![wtmpl[w]] = ParseFiles(@, wfile[w])]
            /\ pc' = [pc EXCEPT ![w] = "execute"]
       ELSE /\ heap' = heap
            /\ pc' = [pc EXCEPT ![w] = "failed"]
    /\ UNCHANGED <<phase, tmplVars, seqVars, wfile, wtmpl, wout>>

\* renderDoc: tmpl := contentTemplate[filepath.Ext(docFile)]
docLookup(w) ==
    /\ pc[w] = "doc"
    /\ wtmpl' = [wtmpl EXCEPT ![w] = contentTemplate[DocExt(wfile[w])]]
    /\ pc' = [pc EXCEPT ![w] = "execute"]
    /\ UNCHANGED <<phase, tmplVars, heap, seqVars, wfile, wout>>

\* dirList: dirListTemplate.Execute(w, d) will run
listLookup(w) ==
    /\ pc[w] = "list"
    /\ wtmpl' = [wtmpl EXCEPT ![w] = dirListTemplate]
    /\ pc' = [pc EXCEPT ![w] = "execute"]
    /\ UNCHANGED <<phase, tmplVars, heap, seqVars, wfile, wout>>

\* Execute / doc.Render: the render reads the definitions of its template
Execute(w) ==
    /\ pc[w] = "execute"
    /\ wout' = [wout EXCEPT ![w] = heap[wtmpl[w]]]
    /\ pc' = [pc EXCEPT ![w] = "done"]
    /\ UNCHANGED <<phase, tmplVars, heap, seqVars, wfile, wtmpl>>

\* the handler returns; its clone is garbage
Return(w) ==
    /\ pc[w] \in {"done", "failed"}
    /\ pc' = [pc EXCEPT ![w] = "idle"]
    /\ wfile' = [wfile EXCEPT ![w] = ""]
    /\ wtmpl' = [wtmpl EXCEPT ![w] = Nil]
    /\ wout' = [wout EXCEPT ![w] = {}]
    /\ heap' = [heap EXCEPT ![CloneId(w)] = {}]
    /\ UNCHANGED <<phase, tmplVars, seqVars>>

NextConc ==
    \/ initTemplates
    \/ \E w \in Workers : Accept(w)
    \/ \E w \in Workers : htmlClone(w)
    \/ \E w \in Workers : htmlParse(w)
    \/ \E w \in Workers : docLookup(w)
    \/ \E w \in Workers : listLookup(w)
    \/ \E w \in Workers : Execute(w)
    \/ \E w \in Workers : Return(w)

SpecConc == Init /\ [][NextConc]_vars
----------------------------------------------------------------------------
(* Properties *)

Done == phase = "done"

\* the path dirHandler resolves the request to
ReqName == Join(<<".">>, req.Path)

IndexName == <<"index", ".", "html">>
DocExts   == {SlideExt, ArticleExt}
ShownExts == {<<".", "pdf">>, HtmlExt, <<".", "go">>} \cup DocExts

\* how often the name n occurs in the category l, and in the whole listing d
CountIn(l, n) == Cardinality({i \in 1..Len(l) : l[i].Name = n})
Total(d, n) ==
    CountIn(d.Dirs, n) + CountIn(d.Slides, n) + CountIn(d.Articles, n) + CountIn(d.Other, n)

\* dirList ran on a directory it could enumerate
Enumerated == Done /\ dirRes.called /\ node.kind = "dir" /\ node.ioErr = "none"
\* ... and built and rendered the listing
ListingBuilt == Enumerated /\ dirRes.executed

Children == {node.entries[i] : i \in 1..Len(node.entries)}
IndexAt(i) == i \in 1..Len(node.entries) /\ node.entries[i].Name = IndexName
HasIndex == \E i \in 1..Len(node.entries) : IndexAt(i)

\* the Location header, read back: //host path [?query]
LocHostEnd   == FirstIndex(resp.location, "/", 1)
LocQueryMark == FirstIndex(resp.location, "?", 1)
LocPathEnd   == IF LocQueryMark = 0 THEN Len(resp.location) ELSE LocQueryMark - 1
RECURSIVE Unescape(_)
Unescape(p) ==
    IF p = <<>> THEN <<>>
    ELSE <<IF Head(p) = "%3F" THEN "?" ELSE Head(p)>> \o Unescape(Tail(p))
LocHost  == SubSeq(resp.location, 2, LocHostEnd - 1)
LocPath  == Unescape(SubSeq(resp.location, LocHostEnd, LocPathEnd))
LocQuery == IF LocQueryMark = 0 THEN <<>>
            ELSE SubSeq(resp.location, LocQueryMark + 1, Len(resp.location))

\* the strategy the priority order of the router's contract selects
ContractStrategy ==
    IF HasPrefix(req.Path, LegacyPrefix) THEN "redirect"
    ELSE IF req.Path = FaviconPath THEN "favicon"
    ELSE IF Ext(ReqName) \in DocExts THEN "renderDoc"
    ELSE IF node.kind = "dir" THEN "dirList"
    ELSE IF Ext(ReqName) = HtmlExt THEN "renderHTML"
    ELSE "fileServer"

\* C1: every request is handled by exactly the first strategy, in the order
\* redirect, favicon (no filesystem access), document, directory, .html,
\* static file, whose condition holds for its path.
C1_FirstStrategyInOrder ==
    Done => /\ strategy = ContractStrategy
            /\ (strategy \in {"redirect", "favicon"} => ~fsAccess /\ ~dirRes.called)
            /\ (strategy = "renderDoc" => ~dirRes.called /\ htmlCalls = <<>>)

C3_StaticFallThrough ==
    ( /\ Done
      /\ ~HasPrefix(req.Path, LegacyPrefix)
      /\ req.Path /= FaviconPath
      /\ Ext(ReqName) \notin DocExts
      /\ Ext(ReqName) /= HtmlExt
      /\ node.kind \in {"file", "absent"} ) =>
        /\ strategy = "fileServer"
        /\ (node.kind = "file" => resp.status = 200 /\ resp.body = <<Chunk("file", req.Path)>>)
        /\ (node.kind = "absent" => resp.status = 404)

\* C4: in a listing that was built, every immediate child has at most one
\* entry over the four categories, and a child that is not a directory is
\* placed by its extension: .slide in Slides only, .article in Articles
\* only, .pdf/.html/.go in Other only, anything else nowhere.
C4_OneCategoryByExtension ==
    ListingBuilt =>
        \A c \in Children :
            LET d == dirRes.d
                x == Ext(c.Name)
            IN  /\ Total(d, c.Name) <= 1
                /\ ~c.IsDir =>
                      /\ (x = SlideExt => CountIn(d.Slides, c.Name) = 1)
                      /\ (x = ArticleExt => CountIn(d.Articles, c.Name) = 1)
                      /\ (x \in ShownExts \ DocExts => CountIn(d.Other, c.Name) = 1)
                      /\ (x \notin ShownExts => Total(d, c.Name) = 0)

C4_Witness ==
    /\ ListingBuilt
    /\ Len(node.entries) = 2
    /\ Len(dirRes.d.Slides) + Len(dirRes.d.Articles) + Len(dirRes.d.Other) = 1
    /\ Len(dirRes.d.Other) = 1
    /\ \E c \in Children : ~c.IsDir /\ Ext(c.Name) = <<".", "txt">>

\* C5: when the enumerated directory has a child named index.html, at any
\* position, dirList does not execute the listing template, writes only
\* what renderHTML writes for that index.html, and returns isDir = true;
\* the router runs nothing after it.
C5_IndexShortCircuits ==
    (Enumerated /\ HasIndex) =>
        \E i \in 1..Len(node.entries) :
            /\ IndexAt(i)
            /\ ~dirRes.executed
            /\ dirRes.isDir
            /\ htmlCalls = <<Join(ReqName, IndexName)>>
            /\ dirRes.out = IF node.entries[i].HtmlOK
                            THEN <<Chunk("html", Join(ReqName, IndexName))>> ELSE <<>>
            /\ strategy = "dirList"
            /\ \A k \in 1..Len(resp.body) : resp.body[k].kind \in {"html", "error"}
            /\ Len(resp.body) = 1

C5_Witness ==
    /\ Enumerated
    /\ Len(node.entries) >= 2
    /\ IndexAt(2)
    /\ node.entries[1].Name = <<"a", ".", "slide">>
    /\ resp.status = 200

\* C6: a subdirectory none of whose immediate children has a shown
\* extension is never in the Dirs of its parent's listing, whatever lies
\* deeper inside it.
C6_DirWithoutShownFilesSuppressed ==
    Enumerated =>
        \A c \in Children :
            (c.IsDir /\ \A k \in 1..Len(c.Kids) : Ext(c.Kids[k].Name) \notin ShownExts)
                => CountIn(dirRes.d.Dirs, c.Name) = 0

C6_Witness ==
    /\ ListingBuilt
    /\ ReqName /= <<".">>
    /\ Len(dirRes.d.Dirs) = 1
    /\ \E c \in Children :
          /\ c.IsDir
          /\ \E k \in 1..Len(c.Kids) : c.Kids[k].IsDir /\ c.Kids[k].Sub /= <<>>
          /\ CountIn(dirRes.d.Dirs, c.Name) = 0

\* the entry of the child named n: in the category of its extension, with
\* an empty Title
ListedUntitled(n) ==
    \/ /\ Ext(n) = SlideExt
       /\ \E i \in 1..Len(dirRes.d.Slides) :
             dirRes.d.Slides[i].Name = n /\ dirRes.d.Slides[i].Title = <<>>
    \/ /\ Ext(n) = ArticleExt
       /\ \E i \in 1..Len(dirRes.d.Articles) :
             dirRes.d.Articles[i].Name = n /\ dirRes.d.Articles[i].Title = <<>>

ParseFailed == Enumerated /\ dirRes.logged /= <<>>

\* C7 (as claimed): when parse fails on a document child, dirList does not
\* return that error, the entry is placed by its extension with an empty
\* Title, the remaining children are processed and the listing template is
\* executed.
C7_ParseFailureStillLists ==
    ParseFailed =>
        /\ \A i \in 1..Len(dirRes.logged) : ListedUntitled(dirRes.logged[i])
        /\ dirRes.err \notin {"syntax", "read", "open"}
        /\ dirRes.seen = Len(node.entries)
        /\ dirRes.executed

\* C7 (amended): when parse fails on a document child, dirList does not
\* return that error and the entry is placed by its extension with an empty
\* Title; the remaining children are processed and the listing template is
\* executed, unless a later child is named index.html: then dirList stops
\* at it and hands over to renderHTML, as it does without a parse failure.
C7_ParseFailureNotFatal ==
    ParseFailed =>
        /\ \A i \in 1..Len(dirRes.logged) : ListedUntitled(dirRes.logged[i])
        /\ dirRes.err \notin {"syntax", "read", "open"}
        /\ IF HasIndex
           THEN /\ IndexAt(dirRes.seen)
                /\ ~dirRes.executed
                /\ htmlCalls = <<Join(ReqName, IndexName)>>
           ELSE /\ dirRes.seen = Len(node.entries)
                /\ dirRes.executed
                /\ dirRes.err = NoErr
                /\ resp.status = 200

C7_Witness ==
    /\ ParseFailed
    /\ dirRes.executed
    /\ Len(node.entries) >= 2
    /\ dirRes.logged = <<node.entries[1].Name>>
    /\ Len(dirRes.d.Other) = 1

\* C8: once initTemplates is done, no request changes contentTemplate,
\* layoutTemplate or dirListTemplate or the templates they hold, whatever
\* the interleaving, and a page's render sees only the layout's definitions
\* and its own.
C8_SharedTemplatesUnchanged ==
    phase /= "boot" =>
        /\ contentTemplate = (SlideExt :> Shared("slides")) @@ (ArticleExt :> Shared("article"))
        /\ layoutTemplate = Shared("layout")
        /\ dirListTemplate = Shared("dir")
        /\ \A id \in SharedIds : heap[id] = InitialDefs(id)
        /\ \A w \in Workers :
              (pc[w] = "done" /\ wfile[w] \in Pages) =>
                  /\ PageDefs(wfile[w]) \subseteq wout[w]
                  /\ \A d \in wout[w] : d.src \in {"layout.tmpl", wfile[w]}

C8_Witness ==
    \E v, w \in Workers :
        /\ pc[v] = "done" /\ wfile[v] = "p.html"
        /\ pc[w] = "execute" /\ wfile[w] = "q.html"

\* a child directory that fails the directory-visibility predicate
HiddenDir(c) ==
    /\ c.IsDir
    /\ \/ c.Name[1] \in {".", "_"}
       \/ c.Name = <<"present">>
       \/ \A k \in 1..Len(c.Kids) : Ext(c.Kids[k].Name) \notin ShownExts

\* C9: a child directory that fails the directory-visibility predicate is
\* in none of Dirs, Slides, Articles and Other, whatever its extension.
C9_HiddenDirOmitted ==
    ListingBuilt => \A c \in Children : HiddenDir(c) => Total(dirRes.d, c.Name) = 0

\* C10: every call of parse by the directory lister reaches the parser in
\* title-only mode, every call by the document renderer in full mode: the
\* parser receives the mode parse was called with.
C10_ParseModePassedOn ==
    Done =>
        \A i \in 1..Len(parseCalls) :
            /\ parseCalls[i].received = parseCalls[i].passed
            /\ (parseCalls[i].caller = "dirList" => parseCalls[i].received = TitlesOnly)
            /\ (parseCalls[i].caller = "renderDoc" => parseCalls[i].received = FullParse)
====
